---- MODULE Spec2Model ----
(***************************************************************************)
(* A model of src/main.py: a folder of card images is enumerated, the      *)
(* images are loaded on a thread pool, laid out on A4 pages in a 3x3 grid  *)
(* with cut guides in the gaps, and the document is written.               *)
(*                                                                         *)
(* Strings (file names, paths, the error label) are sequences of code      *)
(* points.  Lengths are exact multiples of 1/127 point: reportlab's        *)
(* mm = 72/25.4 pt = 360/127 pt, so every length of the program is an      *)
(* integer here (the program computes the same quantities in binary        *)
(* floating point).  Console progress output and the stroke width of the   *)
(* guide squares (setLineWidth) are left out: they change no state that    *)
(* is modelled here.                                                       *)
(***************************************************************************)
EXTENDS Integers, Sequences, FiniteSets, TLC

\* ------------------------------------------------------------- bounds

\* The largest generated folder (number of image files).
MaxCards == 19
\* Up to this many files, every fault pattern and pool size is explored;
\* larger folders are explored with four fault patterns and one worker.
MaxFiles == 3
\* The largest worker pool explored.
MaxWorkers == 3

\* ------------------------------------------------------- text helpers

\* str.lower() on the ASCII range: 'A'..'Z' map to 'a'..'z'.
lower(s) == [i \in 1..Len(s) |-> IF s[i] \in 65..90 THEN s[i] + 32 ELSE s[i]]

\* str.endswith(suffix) for one suffix.
endswith1(s, suffix) ==
    /\ Len(s) >= Len(suffix)
    /\ SubSeq(s, Len(s) - Len(suffix) + 1, Len(s)) = suffix

\* str.endswith(tuple): true when any suffix of the tuple matches.
endswith(s, suffixes) == \E k \in 1..Len(suffixes) : endswith1(s, suffixes[k])

\* ('.jpg', '.jpeg', '.png', '.bmp', '.gif')
supported_extensions ==
    << <<46, 106, 112, 103>>,
       <<46, 106, 112, 101, 103>>,
       <<46, 112, 110, 103>>,
       <<46, 98, 109, 112>>,
       <<46, 103, 105, 102>> >>

\* Python's str ordering: by code point, a proper prefix first.
RECURSIVE StrLess(_, _)
StrLess(a, b) ==
    IF a = <<>> THEN b # <<>>
    ELSE IF b = <<>> THEN FALSE
    ELSE IF a[1] # b[1] THEN a[1] < b[1]
    ELSE StrLess(Tail(a), Tail(b))

\* list.sort() of a list of distinct strings: the i-th element of the
\* result is the one with i-1 elements before it in StrLess order (the
\* entries of one folder are distinct, and so are their paths).  The list
\* is bound to v so that it is evaluated once.
sort(s) ==
    CHOOSE r \in { [i \in 1..Len(v) |->
                      CHOOSE x \in { v[k] : k \in 1..Len(v) } :
                          Cardinality({ k \in 1..Len(v) : StrLess(v[k], x) }) = i - 1]
                   : v \in {s} } : TRUE

\* The image_folder argument ("d").
image_folder == <<100>>

\* os.path.join(image_folder, f) on a POSIX system.
JoinPath(folder, f) == folder \o <<47>> \o f

\* Faulty variant of IsSupported: the name is not lower-cased first.
IsSupportedCaseSensitive(f) == endswith(f, supported_extensions)

\* f.lower().endswith(supported_extensions)
IsSupported(f) == endswith(lower(f), supported_extensions)

\* Lines 54-56: the filtered, joined and sorted listing.
ListImages(listing) ==
    LET kept == SelectSeq(listing, IsSupported)
    IN  sort([i \in 1..Len(kept) |-> JoinPath(image_folder, kept[i])])

\* ------------------------------------------------------------ folders

\* Entries of the hand-picked folder: "b.png", "B.JPG", ".Bmp",
\* "a.gif.bak", "bjpeg".
MixedNames ==
    { <<98, 46, 112, 110, 103>>,
      <<66, 46, 74, 80, 71>>,
      <<46, 66, 109, 112>>,
      <<97, 46, 103, 105, 102, 46, 98, 97, 107>>,
      <<98, 106, 112, 101, 103>> }

\* Every listing order of every subset of MixedNames.
MixedListings ==
    UNION { { s \in [1..k -> MixedNames] :
                \A i, j \in 1..k : i # j => s[i] # s[j] } :
            k \in 0..Cardinality(MixedNames) }

\* The k-th generated image name: one letter ('a', 'b', ...) and one of
\* the supported extensions.
GenName(k) == <<96 + k>> \o supported_extensions[((k - 1) % Len(supported_extensions)) + 1]

\* A folder of n generated images, listed in descending name order.
GenListing(n) == [i \in 1..n |-> GenName(n + 1 - i)]

Range(s) == { s[i] : i \in 1..Len(s) }

\* ------------------------------------------------------------- layout

\* reportlab.lib.units.mm, in units of 1/127 point (72/25.4 pt = 360/127 pt).
mm == (72 * 1270) \div 254

\* One point, in the same units (drawString's "+ 5" is in points).
pt == (127 * mm) \div 360

\* reportlab.lib.pagesizes.A4 = (210*mm, 297*mm).
A4 == <<210 * mm, 297 * mm>>

columns == 3
rows == 3
cards_per_page == 9

\* The label drawn in a cell whose image could not be drawn.
ErrorLabel == <<21152, 36733, 22270, 29255, 38169, 35823>>

\* The layout values before lines 65-80 have run.
NoGeometry ==
    [card_width |-> 0, card_height |-> 0, gap |-> 0,
     grid_width |-> 0, grid_height |-> 0,
     page_width |-> 0, page_height |-> 0,
     left_margin |-> 0, bottom_margin |-> 0]

\* Faulty variant of Margin: the free space is not halved.
MarginNotHalved(page_size, grid_size) == page_size - grid_size

\* (page_width - grid_width) / 2 and (page_height - grid_height) / 2.
Margin(page_size, grid_size) == (page_size - grid_size) \div 2

\* Lines 66-80.
Geometry ==
    LET card_width == 59 * mm
        card_height == 86 * mm
        gap == 2 * mm
        grid_width == columns * card_width + (columns + 1) * gap
        grid_height == rows * card_height + (rows + 1) * gap
        page_width == A4[1]
        page_height == A4[2]
    IN  [card_width |-> card_width, card_height |-> card_height, gap |-> gap,
         grid_width |-> grid_width, grid_height |-> grid_height,
         page_width |-> page_width, page_height |-> page_height,
         left_margin |-> Margin(page_width, grid_width),
         bottom_margin |-> Margin(page_height, grid_height)]

\* Line 95.
CellX(g, c) == g.left_margin + g.gap + c * (g.card_width + g.gap)

\* Faulty variant of CellY: row 0 is placed at the bottom.
CellYBottomUp(g, r) == g.bottom_margin + g.gap + r * (g.card_height + g.gap)

\* Line 97.
CellY(g, r) == g.bottom_margin + g.gap + (rows - 1 - r) * (g.card_height + g.gap)

\* Faulty variant of SquareX: the squares start where the cards start.
SquareXOnCard(g, v) == g.left_margin + g.gap + v * (g.card_width + g.gap)

\* Line 128.
SquareX(g, v) == g.left_margin + v * (g.card_width + g.gap)

\* Line 129.
SquareY(g, h) == g.bottom_margin + h * (g.card_height + g.gap)

\* Faulty variant of NumPages: the division is not rounded up.
NumPagesNoRoundUp(n) ==
    IF n > 0 THEN n \div cards_per_page + 1 ELSE 1

\* Line 87.
NumPages(n) ==
    IF n > 0 THEN (n + cards_per_page - 1) \div cards_per_page ELSE 1

\* ------------------------------------------------------- canvas calls

\* load_image's failure marker, and the handle it returns for an image.
None == <<>>
ImageReader(path) == <<path>>

\* c.drawImage(img, x, y, width=w, height=h, ...); ok is FALSE when it raised.
DrawImageCall(img, x, y, w, h, ok) ==
    [op |-> "drawImage", arg |-> img, x |-> x, y |-> y, w |-> w, h |-> h, ok |-> ok]

\* c.rect(x, y, w, h)
RectCall(x, y, w, h) ==
    [op |-> "rect", arg |-> <<>>, x |-> x, y |-> y, w |-> w, h |-> h, ok |-> TRUE]

\* c.drawString(x, y, text)
DrawStringCall(x, y, text) ==
    [op |-> "drawString", arg |-> text, x |-> x, y |-> y, w |-> 0, h |-> 0, ok |-> TRUE]

\* Lines 109-110 and 113-114: the outline and the label.
Placeholder(g, x, y) ==
    << RectCall(x, y, g.card_width, g.card_height),
       DrawStringCall(x + 5 * pt, y + g.card_height \div 2, ErrorLabel) >>

\* Lines 126-131: the (columns+1) x (rows+1) squares, v outer, h inner.
GuideSquares(g) ==
    [k \in 1..((columns + 1) * (rows + 1)) |->
        RectCall(SquareX(g, (k - 1) \div (rows + 1)),
                 SquareY(g, (k - 1) % (rows + 1)),
                 g.gap, g.gap)]

\* -------------------------------------------------------------- state

VARIABLES
    folderReadable,  \* os.listdir(image_folder) succeeds
    outputWritable,  \* the output path can be opened for writing
    max_workers,     \* the pool's thread limit
    dir,             \* the folder's entries, in the order listdir gives them
    corrupt,         \* entries whose load fails (load_image returns None)
    drawFails,       \* entries whose handle makes c.drawImage raise
    pc,              \* the main thread's position
    image_paths, total_cards,
    futures,         \* the pool's futures, in submission order
    completed,       \* the indices of the finished futures, in finishing order
    readers,         \* the results list(executor.map(...)) has gathered
    loaded_images,
    geom, num_pages, card_index, page, row, col,
    cells,           \* the cells of the page being drawn
    pages,           \* the pages ended by showPage
    outputFile,      \* <<>> while no file exists, else <<the written pages>>
    saves            \* completed c.save() calls

env == <<folderReadable, outputWritable, max_workers, dir, corrupt, drawFails>>
pool == <<futures, completed, readers>>
layout == <<geom, num_pages, card_index, page, row, col>>
canvasState == <<cells, pages>>
vars == <<env, pc, image_paths, total_cards, pool, loaded_images, layout,
          canvasState, outputFile, saves>>

\* The entries of a listing that the run treats as images.
ImagesOf(listing) == { f \in Range(listing) : IsSupported(f) }

\* Every fault pattern over the images of a listing: the first set fails
\* to load, the second fails to draw.
AllFaults(listing) ==
    { cd \in (SUBSET ImagesOf(listing)) \X (SUBSET ImagesOf(listing)) :
        cd[1] \cap cd[2] = {} }

\* Four patterns for a large folder: no fault; every image fails to load;
\* every image fails to draw; of every three consecutive images the first
\* fails to load and the second fails to draw.
SpreadFaults(n) ==
    { <<{}, {}>>,
      <<{ GenName(k) : k \in 1..n }, {}>>,
      <<{}, { GenName(k) : k \in 1..n }>>,
      <<{ GenName(k) : k \in { j \in 1..n : j % 3 = 1 } },
        { GenName(k) : k \in { j \in 1..n : j % 3 = 2 } }>> }

InitRest ==
    /\ pc = "enumerate"
    /\ image_paths = <<>> /\ total_cards = 0
    /\ futures = <<>> /\ completed = <<>> /\ readers = <<>>
    /\ loaded_images = <<>>
    /\ geom = NoGeometry /\ num_pages = 0 /\ card_index = 0
    /\ page = 0 /\ row = 0 /\ col = 0
    /\ cells = <<>> /\ pages = <<>>
    /\ outputFile = <<>> /\ saves = 0

\* Mixed folders: every listing of every subset of MixedNames, no faults.
InitMixed ==
    /\ dir \in MixedListings
    /\ corrupt = {} /\ drawFails = {}
    /\ folderReadable = TRUE /\ outputWritable = TRUE
    /\ max_workers = 1

\* Small folders: every fault pattern and every pool size.
InitSmall ==
    /\ \E n \in 0..MaxFiles : dir = GenListing(n)
    /\ \E cd \in AllFaults(dir) : corrupt = cd[1] /\ drawFails = cd[2]
    /\ folderReadable = TRUE /\ outputWritable = TRUE
    /\ max_workers \in 1..MaxWorkers

\* Large folders: up to MaxCards images, four fault patterns.
InitLarge ==
    /\ \E n \in (MaxFiles + 1)..MaxCards :
         /\ dir = GenListing(n)
         /\ \E cd \in SpreadFaults(n) : corrupt = cd[1] /\ drawFails = cd[2]
    /\ folderReadable = TRUE /\ outputWritable = TRUE
    /\ max_workers = 1

\* An unreadable folder or an unwritable output path.
InitFailing ==
    /\ \E n \in 0..MaxFiles : dir = GenListing(n)
    /\ corrupt = {} /\ drawFails = {}
    /\ folderReadable \in BOOLEAN /\ outputWritable \in BOOLEAN
    /\ ~(folderReadable /\ outputWritable)
    /\ max_workers = 1

Init == (InitMixed \/ InitSmall \/ InitLarge \/ InitFailing) /\ InitRest

\* ------------------------------------------------------- enumeration

\* Lines 54-58: the folder is listed, filtered, joined and sorted.
Enumerate ==
    /\ pc = "enumerate"
    /\ folderReadable
    /\ image_paths' = ListImages(dir)
    /\ total_cards' = Len(image_paths')
    /\ pc' = "submit"
    /\ UNCHANGED <<env, pool, loaded_images, layout, canvasState, outputFile, saves>>

\* Faulty variant of EnumerateFails: the error is swallowed and the folder
\* is taken to be empty.
EnumerateFailsIgnored ==
    /\ pc = "enumerate"
    /\ ~folderReadable
    /\ image_paths' = <<>>
    /\ total_cards' = 0
    /\ pc' = "submit"
    /\ UNCHANGED <<env, pool, loaded_images, layout, canvasState, outputFile, saves>>

\* Line 54: os.listdir raises; the exception leaves create_pdf_from_folder.
EnumerateFails ==
    /\ pc = "enumerate"
    /\ ~folderReadable
    /\ pc' = "fatal"
    /\ UNCHANGED <<env, image_paths, total_cards, pool, loaded_images, layout,
                   canvasState, outputFile, saves>>

\* ----------------------------------------------------------- preload

\* Lines 12-26: the outcome of load_image(path).
load_image(path) ==
    IF \E f \in corrupt : path = JoinPath(image_folder, f)
    THEN None
    ELSE ImageReader(path)

\* Line 35: executor.map submits one future per path, in order, before
\* any result is asked for.
Submit ==
    /\ pc = "submit"
    /\ futures' = [i \in 1..Len(image_paths) |->
                     [arg |-> image_paths[i], state |-> "pending", result |-> None]]
    /\ pc' = "collect"
    /\ UNCHANGED <<env, image_paths, total_cards, completed, readers,
                   loaded_images, layout, canvasState, outputFile, saves>>

Running == { i \in 1..Len(futures) : futures[i].state = "running" }

\* A pool thread takes the oldest queued task.
Start(i) ==
    /\ i \in 1..Len(futures)
    /\ futures[i].state = "pending"
    /\ \A j \in 1..(i - 1) : futures[j].state # "pending"
    /\ Cardinality(Running) < max_workers
    /\ futures' = [futures EXCEPT ![i].state = "running"]
    /\ UNCHANGED <<env, pc, image_paths, total_cards, completed, readers,
                   loaded_images, layout, canvasState, outputFile, saves>>

\* Lines 16-24: the task returns a handle.
LoadSucceeds(i) ==
    /\ i \in Running
    /\ load_image(futures[i].arg) # None
    /\ futures' = [futures EXCEPT ![i].state = "finished",
                                  ![i].result = load_image(futures[i].arg)]
    /\ completed' = Append(completed, i)
    /\ UNCHANGED <<env, pc, image_paths, total_cards, readers,
                   loaded_images, layout, canvasState, outputFile, saves>>

\* Faulty variant of LoadFails: the error is not caught in the task and
\* ends the run when the main thread asks for the result.
LoadFailsUncaught(i) ==
    /\ i \in Running
    /\ load_image(futures[i].arg) = None
    /\ futures' = [futures EXCEPT ![i].state = "finished", ![i].result = None]
    /\ completed' = Append(completed, i)
    /\ pc' = "fatal"
    /\ UNCHANGED <<env, image_paths, total_cards, readers,
                   loaded_images, layout, canvasState, outputFile, saves>>

\* Lines 25-26: the task catches the error and returns None.
LoadFails(i) ==
    /\ i \in Running
    /\ load_image(futures[i].arg) = None
    /\ futures' = [futures EXCEPT ![i].state = "finished", ![i].result = None]
    /\ completed' = Append(completed, i)
    /\ UNCHANGED <<env, pc, image_paths, total_cards, readers,
                   loaded_images, layout, canvasState, outputFile, saves>>

\* Faulty variant of NextResult: the results are taken in finishing order.
NextCompleted ==
    IF Len(completed) > Len(readers)
    THEN completed[Len(readers) + 1]
    ELSE Len(readers) + 1

\* The future whose result the map iterator yields next: the next one in
\* submission order.
NextResult == Len(readers) + 1

\* Faulty variant of ResultReady: the result is read without waiting.
ResultReadyNoWait(i) == TRUE

\* future.result() returns only once the future has finished.
ResultReady(i) == futures[i].state = "finished"

\* Line 35: list(...) takes the next result from the map iterator.
Collect ==
    /\ pc = "collect"
    /\ Len(readers) < Len(futures)
    /\ ResultReady(NextResult)
    /\ readers' = Append(readers, futures[NextResult].result)
    /\ UNCHANGED <<env, pc, image_paths, total_cards, futures, completed,
                   loaded_images, layout, canvasState, outputFile, saves>>

\* zip(image_paths, readers)
zip(a, b) ==
    [i \in 1..(IF Len(a) < Len(b) THEN Len(a) ELSE Len(b)) |-> <<a[i], b[i]>>]

\* Lines 36-37: every result is in; the pairs are returned.
PreloadReturn ==
    /\ pc = "collect"
    /\ Len(readers) = Len(futures)
    /\ loaded_images' = zip(image_paths, readers)
    /\ pc' = "setup"
    /\ UNCHANGED <<env, image_paths, total_cards, pool, layout, canvasState,
                   outputFile, saves>>

\* ------------------------------------------------------------ render

\* Lines 65-89: the layout values, the canvas, the page count.
Setup ==
    /\ pc = "setup"
    /\ geom' = Geometry
    /\ num_pages' = NumPages(total_cards)
    /\ card_index' = 0
    /\ page' = 0 /\ row' = 0 /\ col' = 0
    /\ pc' = IF num_pages' > 0 THEN "cells" ELSE "save"
    /\ UNCHANGED <<env, image_paths, total_cards, pool, loaded_images,
                   canvasState, outputFile, saves>>

\* c.drawImage raises for this handle.
DrawRaises(img_obj) ==
    \E f \in drawFails : img_obj = ImageReader(JoinPath(image_folder, f))

\* One iteration of the loops of lines 92-93 ends: the cell is recorded
\* and the loop variables move on.
EndCell(calls, consumed) ==
    /\ cells' = Append(cells,
                       [row |-> row, col |-> col,
                        x |-> CellX(geom, col), y |-> CellY(geom, row),
                        card |-> IF consumed THEN card_index ELSE -1,
                        calls |-> calls])
    /\ card_index' = IF consumed THEN card_index + 1 ELSE card_index
    /\ IF col < columns - 1
       THEN col' = col + 1 /\ row' = row /\ pc' = "cells"
       ELSE IF row < rows - 1
       THEN col' = 0 /\ row' = row + 1 /\ pc' = "cells"
       ELSE col' = col /\ row' = row /\ pc' = "guides"
    /\ UNCHANGED <<env, image_paths, total_cards, pool, loaded_images,
                   geom, num_pages, page, pages, outputFile, saves>>

\* Lines 99-106: the next image is drawn into the cell.
DrawImage ==
    /\ pc = "cells"
    /\ card_index < total_cards
    /\ LET img_obj == loaded_images[card_index + 1][2]
       IN  /\ img_obj # None
           /\ ~DrawRaises(img_obj)
           /\ EndCell(<< DrawImageCall(img_obj, CellX(geom, col), CellY(geom, row),
                                       geom.card_width, geom.card_height, TRUE) >>,
                      TRUE)

\* Lines 107-110: drawImage raised; the outline and the label are drawn.
DrawImageError ==
    /\ pc = "cells"
    /\ card_index < total_cards
    /\ LET img_obj == loaded_images[card_index + 1][2]
       IN  /\ img_obj # None
           /\ DrawRaises(img_obj)
           /\ EndCell(<< DrawImageCall(img_obj, CellX(geom, col), CellY(geom, row),
                                       geom.card_width, geom.card_height, FALSE) >>
                      \o Placeholder(geom, CellX(geom, col), CellY(geom, row)),
                      TRUE)

\* Lines 111-114: the image failed to load; the outline and the label are drawn.
DrawPlaceholder ==
    /\ pc = "cells"
    /\ card_index < total_cards
    /\ loaded_images[card_index + 1][2] = None
    /\ EndCell(Placeholder(geom, CellX(geom, col), CellY(geom, row)), TRUE)

\* Line 99 is false: no image is left and the cell stays blank.
LeaveBlank ==
    /\ pc = "cells"
    /\ card_index >= total_cards
    /\ EndCell(<<>>, FALSE)

\* Lines 125-132: the guide squares are drawn and showPage ends the page.
FinishPage ==
    /\ pc = "guides"
    /\ pages' = Append(pages, [cells |-> cells, guides |-> GuideSquares(geom)])
    /\ cells' = <<>>
    /\ page' = page + 1
    /\ row' = 0 /\ col' = 0
    /\ pc' = IF page + 1 < num_pages THEN "cells" ELSE "save"
    /\ UNCHANGED <<env, image_paths, total_cards, pool, loaded_images,
                   geom, num_pages, card_index, outputFile, saves>>

\* -------------------------------------------------------------- write

\* Faulty variant of Save: the document is written a second time.
SaveTwice ==
    /\ pc = "save"
    /\ outputWritable
    /\ outputFile' = <<pages>>
    /\ saves' = saves + 1
    /\ pc' = IF saves = 0 THEN "save" ELSE "done"
    /\ UNCHANGED <<env, image_paths, total_cards, pool, loaded_images, layout,
                   canvasState>>

\* Line 134: c.save() writes the pages to the output path.
Save ==
    /\ pc = "save"
    /\ outputWritable
    /\ outputFile' = <<pages>>
    /\ saves' = saves + 1
    /\ pc' = "done"
    /\ UNCHANGED <<env, image_paths, total_cards, pool, loaded_images, layout,
                   canvasState>>

\* Line 134: the output path cannot be opened; the exception leaves the run.
SaveFails ==
    /\ pc = "save"
    /\ ~outputWritable
    /\ pc' = "fatal"
    /\ UNCHANGED <<env, image_paths, total_cards, pool, loaded_images, layout,
                   canvasState, outputFile, saves>>

\* ------------------------------------------------------ specification

Worker(i) == Start(i) \/ LoadSucceeds(i) \/ LoadFails(i)

Main ==
    \/ Enumerate
    \/ EnumerateFails
    \/ Submit
    \/ Collect
    \/ PreloadReturn
    \/ Setup
    \/ DrawImage
    \/ DrawImageError
    \/ DrawPlaceholder
    \/ LeaveBlank
    \/ FinishPage
    \/ Save
    \/ SaveFails

\* A step of some pool thread.
PoolStep == \E i \in 1..Len(futures) : Worker(i)

Next ==
    \/ Main
    \/ PoolStep

Spec == Init /\ [][Next]_vars

\* The main thread keeps running while it can, and the pool keeps working
\* while it has a task to start or to finish (every load ends).
FairSpec ==
    /\ Spec
    /\ WF_vars(Main)
    /\ WF_vars(PoolStep)

\* ------------------------------------------------------------- claims

\* The main thread is past preload_images.
Preloaded ==
    \/ pc \in {"setup", "cells", "guides", "save", "done"}
    \/ pc = "fatal" /\ folderReadable

\* Every page has been ended and the run is at, or past, c.save().
Rendered ==
    \/ pc \in {"save", "done"}
    \/ pc = "fatal" /\ folderReadable

\* The cell drawn k-th (1..9) on page p (1-based), on an ended page or on
\* the page being drawn.
CellAt(p, k) == IF p <= Len(pages) THEN pages[p].cells[k] ELSE cells[k]

\* The (page, position) pairs of the cells drawn so far.
DrawnCells ==
    { pk \in (1..(Len(pages) + 1)) \X (1..9) :
        \/ pk[1] <= Len(pages) /\ pk[2] <= Len(pages[pk[1]].cells)
        \/ pk[1] = Len(pages) + 1 /\ pk[2] <= Len(cells) }

\* No common interior area between two axis-parallel rectangles.
Disjoint(x1, y1, w1, h1, x2, y2, w2, h2) ==
    \/ x1 + w1 <= x2 \/ x2 + w2 <= x1
    \/ y1 + h1 <= y2 \/ y2 + h2 <= y1

\* The rectangle lies within the page.
OnPage(x, y, w, h) ==
    /\ 0 <= x /\ x + w <= geom.page_width
    /\ 0 <= y /\ y + h <= geom.page_height

\* C1: preload_images returns, for every completion order of the load
\* tasks, as many entries as input paths, the i-th being the pair of the
\* i-th path and the result of loading that path.
C1_PreloadKeepsInputOrder ==
    Preloaded =>
        /\ Len(loaded_images) = Len(image_paths)
        /\ \A i \in 1..Len(image_paths) :
             /\ futures[i].arg = image_paths[i]
             /\ loaded_images[i] = <<image_paths[i], futures[i].result>>
             /\ loaded_images[i][2] = load_image(image_paths[i])

\* C1 witness: preload returned after the second task finished before the
\* first, the first path failing to load and the second loading.
C1_Witness ==
    /\ pc = "setup"
    /\ Len(completed) >= 2
    /\ completed[1] = 2 /\ completed[2] = 1
    /\ loaded_images[1][2] = None
    /\ loaded_images[2][2] # None

\* C2: the number of pages emitted before save is max(1, ceil(N/9)) for N
\* enumerated images; N=0 gives 1, N=9 gives 1, N=10 gives 2, N=18 gives 2.
C2_PageCount ==
    Rendered =>
        LET N == Len(image_paths)
            P == Len(pages)
        IN  /\ P >= 1
            /\ 9 * P >= N
            /\ P = 1 \/ 9 * (P - 1) < N
            /\ N = 0 => P = 1
            /\ N = 9 => P = 1
            /\ N = 10 => P = 2
            /\ N = 18 => P = 2

\* C2 witness: a finished run over ten images, on two pages.
C2_Witness ==
    /\ pc = "done"
    /\ Len(image_paths) = 10
    /\ Len(pages) = 2

\* The cells that consumed the image of sorted index i (0-based).
CellsOfCard(i) == { pk \in DrawnCells : CellAt(pk[1], pk[2]).card = i }

\* The cell shows the outline and the error label, and nothing else.
IsPlaceholderCell(c) ==
    /\ Len(c.calls) = 2
    /\ c.calls[1].op = "rect"
    /\ c.calls[1].x = c.x /\ c.calls[1].y = c.y
    /\ c.calls[1].w = geom.card_width /\ c.calls[1].h = geom.card_height
    /\ c.calls[2].op = "drawString"
    /\ c.calls[2].arg = ErrorLabel

\* The cell shows the image of handle img, drawn without error, and
\* nothing else.
IsImageCell(c, img) ==
    /\ Len(c.calls) = 1
    /\ c.calls[1].op = "drawImage"
    /\ c.calls[1].ok
    /\ c.calls[1].arg = img
    /\ c.calls[1].x = c.x /\ c.calls[1].y = c.y
    /\ c.calls[1].w = geom.card_width /\ c.calls[1].h = geom.card_height

\* The cell shows a drawImage call for img that raised, then the outline
\* and the error label.
IsFailedDrawCell(c, img) ==
    /\ Len(c.calls) = 3
    /\ c.calls[1].op = "drawImage"
    /\ ~c.calls[1].ok
    /\ c.calls[1].arg = img
    /\ IsPlaceholderCell([c EXCEPT !.calls = Tail(c.calls)])

\* The page count of a run over N images.
RightPageCount ==
    LET N == Len(image_paths)
        P == Len(pages)
    IN  P >= 1 /\ 9 * P >= N /\ (P = 1 \/ 9 * (P - 1) < N)

\* No image failure ends the run: a fatal end has a filesystem cause.
NoCrashOnImages == pc = "fatal" => ~folderReadable \/ ~outputWritable

\* C3 as stated: every image whose load failed has its own cell with the
\* outline and the label, every other image is drawn normally, no image
\* failure ends the run, and the page count is max(1, ceil(N/9)).
C3_Original ==
    /\ NoCrashOnImages
    /\ Rendered =>
         /\ RightPageCount
         /\ \A i \in 1..Len(loaded_images) :
              /\ Cardinality(CellsOfCard(i - 1)) = 1
              /\ \A pk \in CellsOfCard(i - 1) :
                   IF loaded_images[i][2] = None
                   THEN IsPlaceholderCell(CellAt(pk[1], pk[2]))
                   ELSE IsImageCell(CellAt(pk[1], pk[2]), loaded_images[i][2])

\* C3 amended: every image whose load failed has its own cell with the
\* outline and the label; every other image has its own cell in which
\* drawImage is called with its handle, and is drawn normally unless that
\* call raises, in which case the cell gets the outline and the label too;
\* no image failure ends the run, and the page count is max(1, ceil(N/9)).
C3_PlaceholderNotCrash ==
    /\ NoCrashOnImages
    /\ Rendered =>
         /\ RightPageCount
         /\ \A i \in 1..Len(loaded_images) :
              /\ Cardinality(CellsOfCard(i - 1)) = 1
              /\ \A pk \in CellsOfCard(i - 1) :
                   LET c == CellAt(pk[1], pk[2])
                       img == loaded_images[i][2]
                   IN  IF img = None
                       THEN IsPlaceholderCell(c)
                       ELSE IF DrawRaises(img)
                       THEN IsFailedDrawCell(c, img)
                       ELSE IsImageCell(c, img)

\* C3 witness: a finished run of at least ten images in which the tenth
\* failed to load and has a placeholder cell on the second page, while
\* another image was drawn.
C3_Witness ==
    /\ pc = "done"
    /\ Len(loaded_images) >= 10
    /\ loaded_images[10][2] = None
    /\ IsPlaceholderCell(pages[2].cells[1])
    /\ \E i \in 1..Len(loaded_images) :
         /\ loaded_images[i][2] # None
         /\ \E pk \in CellsOfCard(i - 1) :
              IsImageCell(CellAt(pk[1], pk[2]), loaded_images[i][2])

\* The left edges of the vertical gap strips around the cards of a page,
\* and the bottom edges of the horizontal ones.
StripLefts(pg) ==
    { c.x - geom.gap : c \in Range(pg.cells) }
    \cup { c.x + geom.card_width : c \in Range(pg.cells) }
StripBottoms(pg) ==
    { c.y - geom.gap : c \in Range(pg.cells) }
    \cup { c.y + geom.card_height : c \in Range(pg.cells) }

\* C4: on every page, the blank page of an empty run included, exactly
\* (columns+1) x (rows+1) = 16 guide squares are drawn, each of side gap,
\* one on every crossing of a vertical and a horizontal gap strip (so
\* centered on the grid lines), none sharing interior area with any of
\* the nine card rectangles.
C4_GuideSquares ==
    \A p \in 1..Len(pages) :
        LET pg == pages[p]
            G == pg.guides
        IN  /\ Len(G) = 16
            /\ Len(G) = (columns + 1) * (rows + 1)
            /\ Len(pg.cells) = 9
            /\ Cardinality(StripLefts(pg)) = 4
            /\ Cardinality(StripBottoms(pg)) = 4
            /\ { <<G[k].x, G[k].y>> : k \in 1..Len(G) }
                 = StripLefts(pg) \X StripBottoms(pg)
            /\ \A k \in 1..Len(G) :
                 /\ G[k].op = "rect"
                 /\ G[k].w = geom.gap /\ G[k].h = geom.gap
                 /\ geom.gap > 0
                 /\ \A c \in Range(pg.cells) :
                      Disjoint(G[k].x, G[k].y, G[k].w, G[k].h,
                               c.x, c.y, geom.card_width, geom.card_height)

\* C4 witness: the single page of a run over an empty folder, all its
\* cells blank, with its guides drawn.
C4_Witness ==
    /\ total_cards = 0
    /\ Len(pages) = 1
    /\ \A c \in Range(pages[1].cells) : c.calls = <<>>
    /\ Len(pages[1].guides) = 16

\* Two code points are the same letter up to ASCII case.
SameLetter(a, b) ==
    \/ a = b
    \/ a \in 65..90 /\ b = a + 32
    \/ b \in 65..90 /\ a = b + 32

\* The name ends, case-insensitively, in the extension.
EndsInExtension(f, ext) ==
    /\ Len(f) >= Len(ext)
    /\ \A k \in 1..Len(ext) : SameLetter(f[Len(f) - Len(ext) + k], ext[k])

\* The name ends in one of .jpg, .jpeg, .png, .bmp, .gif.
HasImageExtension(f) ==
    \E ext \in { <<46, 106, 112, 103>>, <<46, 106, 112, 101, 103>>,
                 <<46, 112, 110, 103>>, <<46, 98, 109, 112>>,
                 <<46, 103, 105, 102>> } : EndsInExtension(f, ext)

\* a comes strictly before b in lexicographic order.
Precedes(a, b) ==
    \E k \in 1..Len(b) :
        /\ k <= Len(a) + 1
        /\ \A j \in 1..(k - 1) : a[j] = b[j]
        /\ k = Len(a) + 1 \/ a[k] < b[k]

\* The entry name of a path of the folder.
NameOf(path) == SubSeq(path, Len(image_folder) + 2, Len(path))

\* C5: the images considered are exactly the entries of the folder whose
\* name ends, case-insensitively, in a supported extension, each once,
\* sorted lexicographically by name.
C5_EnumerationExact ==
    (pc # "enumerate" /\ folderReadable) =>
        /\ \A i \in 1..Len(image_paths) :
             /\ NameOf(image_paths[i]) \in Range(dir)
             /\ HasImageExtension(NameOf(image_paths[i]))
             /\ image_paths[i] = image_folder \o <<47>> \o NameOf(image_paths[i])
        /\ \A f \in Range(dir) :
             HasImageExtension(f) =>
                 \E i \in 1..Len(image_paths) : NameOf(image_paths[i]) = f
        /\ \A i, j \in 1..Len(image_paths) :
             i < j => Precedes(NameOf(image_paths[i]), NameOf(image_paths[j]))
        /\ total_cards = Len(image_paths)

\* C5 witness: a folder of five entries listed out of order, two of them
\* no images, whose three images (two with upper-case letters in the
\* extension) have been enumerated in sorted order.
C5_Witness ==
    /\ pc = "submit"
    /\ Len(dir) = 5
    /\ dir[1] = <<98, 46, 112, 110, 103>>
    /\ dir[2] = <<66, 46, 74, 80, 71>>
    /\ image_paths = << <<100, 47, 46, 66, 109, 112>>,
                        <<100, 47, 66, 46, 74, 80, 71>>,
                        <<100, 47, 98, 46, 112, 110, 103>> >>

\* C6: while any load task is pending or running no cell is drawn, no page
\* is emitted and nothing is written: the main thread is still collecting
\* results, so a task that never finishes keeps rendering from starting.
C6_Barrier ==
    (\E i \in 1..Len(futures) : futures[i].state # "finished") =>
        /\ pc = "collect"
        /\ cells = <<>>
        /\ pages = <<>>
        /\ loaded_images = <<>>
        /\ outputFile = <<>> /\ saves = 0

\* C6 witness: the main thread holds the first result and waits while the
\* second task is running and the third is still queued.
C6_Witness ==
    /\ pc = "collect"
    /\ Len(futures) >= 3
    /\ Len(readers) = 1
    /\ futures[1].state = "finished"
    /\ futures[2].state = "running"
    /\ futures[3].state = "pending"

\* C7: with an unreadable folder the run can only end in the fatal state,
\* and no load task is ever dispatched, no page emitted and no document
\* written.
C7_EnumerationFailureFatal ==
    ~folderReadable =>
        /\ pc \in {"enumerate", "fatal"}
        /\ image_paths = <<>>
        /\ futures = <<>> /\ completed = <<>> /\ readers = <<>>
        /\ cells = <<>> /\ pages = <<>>
        /\ outputFile = <<>> /\ saves = 0

\* C7 witness: the run ended fatally on a folder that could not be listed.
C7_Witness ==
    /\ pc = "fatal"
    /\ ~folderReadable
    /\ outputFile = <<>>

\* C8: the cell drawn k-th on page p is cell (row, col) =
\* ((k-1) div 3, (k-1) mod 3) at the origin given for it, row 0 nearest the
\* top and column 0 nearest the left; it consumes the image of sorted index
\* i = 9(p-1) + (k-1) when i < N and is blank otherwise; every image is
\* consumed once, in order, and card_index = N when rendering has finished.
C8_RowMajorPlacement ==
    /\ \A pk \in DrawnCells :
         LET c == CellAt(pk[1], pk[2])
             i == 9 * (pk[1] - 1) + (pk[2] - 1)
         IN  /\ c.row = (i % 9) \div 3
             /\ c.col = i % 3
             /\ pk[1] - 1 = i \div 9
             /\ c.x = geom.left_margin + geom.gap
                        + c.col * (geom.card_width + geom.gap)
             /\ c.y = geom.bottom_margin + geom.gap
                        + (2 - c.row) * (geom.card_height + geom.gap)
             /\ IF i < Len(loaded_images)
                THEN /\ c.card = i
                     /\ c.calls # <<>>
                     /\ \A n \in 1..Len(c.calls) :
                          c.calls[n].op = "drawImage" =>
                              c.calls[n].arg = loaded_images[i + 1][2]
                     /\ loaded_images[i + 1][1] = image_paths[i + 1]
                ELSE c.card = -1 /\ c.calls = <<>>
             /\ \A qk \in DrawnCells :
                  LET d == CellAt(qk[1], qk[2])
                  IN  qk[1] = pk[1] =>
                          /\ c.row < d.row => c.y > d.y
                          /\ c.col < d.col => c.x < d.x
    /\ card_index = Cardinality({ pk \in DrawnCells : CellAt(pk[1], pk[2]).card >= 0 })
    /\ Rendered => card_index = Len(image_paths)

\* C8 witness: a finished run of at least ten images whose last page has
\* both filled and blank cells.
C8_Witness ==
    /\ pc = "done"
    /\ Len(pages) >= 2
    /\ total_cards >= 10
    /\ pages[Len(pages)].cells[1].card = 9 * (Len(pages) - 1)
    /\ pages[Len(pages)].cells[9].card = -1

\* C9: the grid is 185mm x 266mm on a 210mm x 297mm page, with positive
\* margins equal left and right, and bottom and top; each of the nine card
\* rectangles and sixteen guide squares of a page lies within the page,
\* and no two card rectangles overlap.
C9_GridCentred ==
    (geom # NoGeometry) =>
        /\ geom.grid_width = 185 * mm
        /\ geom.grid_height = 266 * mm
        /\ geom.grid_width = 3 * geom.card_width + 4 * geom.gap
        /\ geom.grid_height = 3 * geom.card_height + 4 * geom.gap
        /\ geom.page_width = 210 * mm
        /\ geom.page_height = 297 * mm
        /\ geom.left_margin > 0
        /\ geom.bottom_margin > 0
        /\ geom.page_width - (geom.left_margin + geom.grid_width) = geom.left_margin
        /\ geom.page_height - (geom.bottom_margin + geom.grid_height) = geom.bottom_margin
        /\ \A pk \in DrawnCells :
             LET c == CellAt(pk[1], pk[2])
             IN  /\ OnPage(c.x, c.y, geom.card_width, geom.card_height)
                 /\ \A qk \in DrawnCells :
                      LET d == CellAt(qk[1], qk[2])
                      IN  (qk[1] = pk[1] /\ qk[2] # pk[2]) =>
                              Disjoint(c.x, c.y, geom.card_width, geom.card_height,
                                       d.x, d.y, geom.card_width, geom.card_height)
        /\ \A p \in 1..Len(pages) :
             /\ Len(pages[p].cells) = 9
             /\ Len(pages[p].guides) = 16
             /\ \A k \in 1..Len(pages[p].guides) :
                  LET s == pages[p].guides[k]
                  IN  OnPage(s.x, s.y, s.w, s.h)

\* C9 witness: a full page of nine drawn cards has been emitted.
C9_Witness ==
    /\ Len(pages) >= 1
    /\ geom.card_width = 59 * mm
    /\ \A k \in 1..9 : pages[1].cells[k].calls # <<>>

\* The document is written once, after the last page, and nothing is
\* drawn or emitted afterwards.
WrittenOnce ==
    /\ pc = "done" =>
         /\ saves = 1
         /\ outputFile = <<pages>>
         /\ Len(pages) = num_pages
         /\ cells = <<>>
    /\ saves <= 1
    /\ saves = 1 => pc = "done"

\* C10: with a readable folder and a writable output path, under fair
\* scheduling of the main thread and the pool threads, the run terminates,
\* having written the document exactly once, after the last page, with no
\* drawing or page emission after the write.
C10_Terminates ==
    /\ [](folderReadable /\ outputWritable => <>(pc = "done"))
    /\ []WrittenOnce
    /\ [][saves >= 1 => UNCHANGED <<cells, pages, outputFile, saves>>]_vars
    /\ [][saves' # saves => pc = "save" /\ Len(pages) = num_pages /\ cells = <<>>]_vars

\* C10 witness: a run whose three load tasks finished in the order 3, 1, 2
\* has written its document.
C10_Witness ==
    /\ pc = "done"
    /\ saves = 1
    /\ completed = <<3, 1, 2>>
    /\ outputFile = <<pages>>

====
